---- MODULE Spec2Model ----
(***************************************************************************)
(* State-machine model of jaqs/trade/strategy.py: the order tracker of     *)
(* class Strategy (identifier minting, place_order, place_batch_order,     *)
(* cancel_order, goal_portfolio, the two gateway callbacks) and the weight *)
(* pipeline of class AlphaStrategy (re_weight_suspension,                  *)
(* generate_weights_order).                                                *)
(*                                                                         *)
(* Python strings are sequences of one-character strings, so that str(),   *)
(* format() and ','.join() are computed and not assumed.  Python floats    *)
(* are exact rationals <<numerator, denominator>>.                         *)
(***************************************************************************)
EXTENDS Integers, Sequences, FiniteSets, TLC

VARIABLES
    trade_date,    \* ctx.trade_date
    seq_gen,       \* self.seq_gen: per-key counter of the SequenceGenerator
    task_id_map,   \* self.task_id_map: task id -> list of entrust ids
    pm_orders,     \* orders handed to self.pm.add_order, in call order
    gw_orders,     \* calls of ctx.gateway.place_order, in call order
    pm_position,   \* positions kept by self.pm: held symbol -> curr_size
    minted,        \* history: per key, the values _get_next_num returned
    last,          \* the last operation of Strategy: arguments, calls, result
    weights,       \* self.weights of AlphaStrategy: symbol -> rational
    alpha          \* the last operation of AlphaStrategy: arguments, result

vars == <<trade_date, seq_gen, task_id_map, pm_orders, gw_orders, pm_position,
          minted, last, weights, alpha>>

trackerVars == <<trade_date, seq_gen, task_id_map, pm_orders, gw_orders,
                 minted, last>>

-----------------------------------------------------------------------------
(* Bounds of the model. *)

MaxTasks == 2       \* task ids minted in one run
MaxEntrusts == 2    \* entrust ids minted in one run
MaxDate == 2        \* trade dates 1 .. MaxDate
MaxHeld == 1        \* lots a position of the portfolio manager may hold

(* Program constants. *)

IdBase == 10000     \* _get_next_num: trade_date * 10000 + counter
Lot == 100          \* generate_weights_order: shares unit 100

-----------------------------------------------------------------------------
(* Python strings. *)

DigitChars == <<"0", "1", "2", "3", "4", "5", "6", "7", "8", "9">>

\* str(n) of a non-negative integer: its decimal digits
RECURSIVE Str(_)
Str(n) == IF n < 10 THEN <<DigitChars[n + 1]>>
          ELSE Str(n \div 10) \o <<DigitChars[(n % 10) + 1]>>

\* sep.join(list)
RECURSIVE Join(_, _)
Join(sep, list) ==
    IF list = <<>> THEN <<>>
    ELSE IF Len(list) = 1 THEN list[1]
    ELSE list[1] \o sep \o Join(sep, Tail(list))

\* bool(s) of a string: non-empty
Truthy(s) == Len(s) > 0

EmptyStr == <<>>
Comma == <<",">>
SentinelTaskId == <<"0">>
NoTaskIdPrefix == <<"N", "o", " ", "t", "a", "s", "k", " ", "i", "d", " ">>

\* any(map(lambda s: bool(s), err_msgs))
AnyTruthy(msgs) == \E i \in 1..Len(msgs) : Truthy(msgs[i])

-----------------------------------------------------------------------------
(* The strategy universe and the inputs of the operations. *)

universe == <<"A", "B">>                 \* ctx.universe, a fixed ordered list
UniverseSet == {universe[i] : i \in 1..Len(universe)}
Keys == {"task_id", "entrust_no"}
Actions == {"Buy", "Sell"}
GatewayErrs == {EmptyStr, <<"e">>}       \* what a gateway call may return
Algos == {EmptyStr, <<"v">>}             \* algo argument of place_order

SeqsUpTo(S, n) == UNION {[1..k -> S] : k \in 0..n}

-----------------------------------------------------------------------------
(* SequenceGenerator and _get_next_num. *)

\* SequenceGenerator.get_next(key): the value returned
get_next(sg, key) == sg[key] + 1

\* SequenceGenerator.get_next(key): the generator afterwards
seq_after(sg, key) == [sg EXCEPT ![key] = @ + 1]

\* variant of _get_next_num: one counter for every key
get_next_num_wrong_key(date, sg, key) == Str(date * IdBase + get_next(sg, "task_id"))

\* Strategy._get_next_num(key): the identifier returned
get_next_num(date, sg, key) == Str(date * IdBase + get_next(sg, key))

-----------------------------------------------------------------------------
(* task_id_map, a defaultdict(list). *)

\* self.task_id_map[k].append(v)
map_append(m, k, v) ==
    IF k \in DOMAIN m THEN [m EXCEPT ![k] = Append(@, v)] ELSE m @@ (k :> <<v>>)

\* self.task_id_map.get(k, None): <<>> stands for None (no list stored is empty)
map_get(m, k) == IF k \in DOMAIN m THEN m[k] ELSE <<>>

InSeq(x, s) == \E i \in 1..Len(s) : s[i] = x

NoLast == [op |-> "none", raised |-> "", arg_task |-> EmptyStr, n_goals |-> 0,
           goals |-> <<>>,
           orders |-> <<>>, n_orders |-> 0,
           minted_task |-> EmptyStr, ret_task |-> EmptyStr, ret_ok |-> FALSE,
           ret_err |-> EmptyStr, gw_errs |-> <<>>, cancels |-> <<>>]

-----------------------------------------------------------------------------
(* Strategy.place_order *)

new_order(symbol, action, price, size, date) ==
    [symbol |-> symbol, action |-> action, price |-> price, size |-> size,
     entrust_date |-> date, task_id |-> EmptyStr, entrust_no |-> EmptyStr]

\* variant of place_order_ret: the minted task id also on an error
place_order_ret_always_task(task_id, err_msg) == task_id

\* the task id place_order returns: '0' when the gateway reported an error
place_order_ret(task_id, err_msg) ==
    IF Truthy(err_msg) THEN SentinelTaskId ELSE task_id

place_order(symbol, action, price, size, algo, err) ==
    IF Truthy(algo)
    THEN /\ last' = [NoLast EXCEPT !.op = "place_order",
                                   !.raised = "NotImplementedError"]
         /\ UNCHANGED <<seq_gen, task_id_map, pm_orders, gw_orders, minted>>
    ELSE
      LET tid == get_next_num(trade_date, seq_gen, "task_id")
          sg1 == seq_after(seq_gen, "task_id")
          eno == get_next_num(trade_date, sg1, "entrust_no")
          sg2 == seq_after(sg1, "entrust_no")
          order == [new_order(symbol, action, price, size, trade_date)
                        EXCEPT !.task_id = tid, !.entrust_no = eno]
          map1 == map_append(task_id_map, tid, eno)
      IN /\ Len(minted["task_id"]) < MaxTasks
         /\ Len(minted["entrust_no"]) < MaxEntrusts
         /\ seq_gen' = sg2
         /\ minted' = [minted EXCEPT
                          !["task_id"] = Append(@, [date |-> trade_date, id |-> tid]),
                          !["entrust_no"] = Append(@, [date |-> trade_date, id |-> eno])]
         /\ task_id_map' = map1
         /\ pm_orders' = Append(pm_orders, order)
         /\ gw_orders' = Append(gw_orders,
                [order |-> order, err_msg |-> err,
                 mapped |-> InSeq(eno, map_get(map1, tid))])
         /\ last' = [NoLast EXCEPT
                        !.op = "place_order",
                        !.n_orders = 1,
                        !.minted_task = tid,
                        !.orders = <<new_order(symbol, action, price, size, trade_date)>>,
                        !.ret_task = place_order_ret(tid, err),
                        !.ret_err = err,
                        !.gw_errs = <<err>>]

\* the orders a caller hands in: a buy of the first symbol of the universe or
\* a sell of another one
OrderInputs ==
    {new_order(s, IF s = universe[1] THEN "Buy" ELSE "Sell", 10, Lot, trade_date) :
        s \in UniverseSet}

PlaceOrder ==
    \E o \in OrderInputs, algo \in Algos, err \in GatewayErrs :
        /\ place_order(o.symbol, o.action, o.price, o.size, algo, err)
        /\ UNCHANGED <<trade_date, pm_position, weights, alpha>>

-----------------------------------------------------------------------------
(* Strategy.place_batch_order *)

\* variant of batch_step: gives up after the first gateway error
batch_step_stop_on_error(st, order, err, task_id, date) ==
    LET eno == get_next_num(date, st.sg, "entrust_no")
        o == [order EXCEPT !.task_id = task_id, !.entrust_no = eno]
    IN IF AnyTruthy(st.errs) THEN st
       ELSE [sg |-> seq_after(st.sg, "entrust_no"),
             mint |-> Append(st.mint, [date |-> date, id |-> eno]),
             pm |-> Append(st.pm, o),
             gw |-> Append(st.gw, [order |-> o, err_msg |-> err,
                                   mapped |-> InSeq(eno, map_get(st.map, task_id))]),
             errs |-> Append(st.errs, err),
             map |-> map_append(st.map, task_id, eno)]

\* variant of batch_step: the entrust counter is not advanced
batch_step_shared_entrust(st, order, err, task_id, date) ==
    LET eno == get_next_num(date, st.sg, "entrust_no")
        o == [order EXCEPT !.task_id = task_id, !.entrust_no = eno]
    IN [sg |-> st.sg,
        mint |-> Append(st.mint, [date |-> date, id |-> eno]),
        pm |-> Append(st.pm, o),
        gw |-> Append(st.gw, [order |-> o, err_msg |-> err,
                              mapped |-> InSeq(eno, map_get(st.map, task_id))]),
        errs |-> Append(st.errs, err),
        map |-> map_append(st.map, task_id, eno)]

\* One pass of the loop body "for order in orders", gateway answer err.
\* st: the generator, the map, both call logs, the minted history and err_msgs.
batch_step(st, order, err, task_id, date) ==
    LET eno == get_next_num(date, st.sg, "entrust_no")
        o == [order EXCEPT !.task_id = task_id, !.entrust_no = eno]
    IN [sg |-> seq_after(st.sg, "entrust_no"),
        mint |-> Append(st.mint, [date |-> date, id |-> eno]),
        pm |-> Append(st.pm, o),
        gw |-> Append(st.gw, [order |-> o, err_msg |-> err,
                              mapped |-> InSeq(eno, map_get(st.map, task_id))]),
        errs |-> Append(st.errs, err),
        map |-> map_append(st.map, task_id, eno)]

RECURSIVE batch_loop(_, _, _, _, _)
batch_loop(st, orders, errs, task_id, date) ==
    IF orders = <<>> THEN st
    ELSE batch_loop(batch_step(st, Head(orders), Head(errs), task_id, date),
                    Tail(orders), Tail(errs), task_id, date)

\* place_batch_order(orders); errs[i] is the gateway's answer to orders[i];
\* call names the caller: place_batch_order itself or goal_portfolio
place_batch_order(orders, errs, call) ==
    LET task_id == get_next_num(trade_date, seq_gen, "task_id")
        st0 == [sg |-> seq_after(seq_gen, "task_id"), map |-> task_id_map,
                pm |-> pm_orders, gw |-> gw_orders,
                mint |-> minted["entrust_no"], errs |-> <<>>]
        st == batch_loop(st0, orders, errs, task_id, trade_date)
    IN /\ Len(minted["task_id"]) < MaxTasks
       /\ Len(minted["entrust_no"]) + Len(orders) <= MaxEntrusts
       /\ seq_gen' = st.sg
       /\ minted' = [minted EXCEPT
                        !["task_id"] = Append(@, [date |-> trade_date, id |-> task_id]),
                        !["entrust_no"] = st.mint]
       /\ task_id_map' = st.map
       /\ pm_orders' = st.pm
       /\ gw_orders' = st.gw
       /\ last' = [NoLast EXCEPT
                      !.op = call.op,
                      !.n_goals = call.n_goals,
                      !.goals = call.goals,
                      !.orders = orders,
                      !.n_orders = Len(orders),
                      !.minted_task = task_id,
                      !.ret_task = task_id,
                      !.ret_err = Join(Comma, st.errs),
                      !.gw_errs = st.errs]

PlaceBatchOrder ==
    \E orders \in SeqsUpTo(OrderInputs, MaxEntrusts - Len(minted["entrust_no"])) :
      \E errs \in [1..Len(orders) -> GatewayErrs] :
        /\ place_batch_order(orders, errs, [op |-> "place_batch_order", n_goals |-> 0, goals |-> <<>>])
        /\ UNCHANGED <<trade_date, pm_position, weights, alpha>>

-----------------------------------------------------------------------------
(* Strategy.cancel_order *)

\* variant of cancel_order_known: gives up after the first failed cancel
cancel_order_stop_on_error(task_id, errs) ==
    LET entrust_no_list == task_id_map[task_id]
        n == IF AnyTruthy(errs)
             THEN CHOOSE i \in 1..Len(errs) :
                     Truthy(errs[i]) /\ \A j \in 1..(i - 1) : ~Truthy(errs[j])
             ELSE Len(errs)
        err_msgs == SubSeq(errs, 1, n)
    IN /\ last' = [NoLast EXCEPT
                      !.op = "cancel_order", !.arg_task = task_id,
                      !.cancels = SubSeq(entrust_no_list, 1, n),
                      !.gw_errs = err_msgs,
                      !.ret_ok = ~AnyTruthy(err_msgs),
                      !.ret_err = IF AnyTruthy(err_msgs) THEN Join(Comma, err_msgs)
                                  ELSE EmptyStr]
       /\ UNCHANGED task_id_map

\* variant of cancel_order_known: drops the task from task_id_map
cancel_order_forgets_task(task_id, errs) ==
    LET entrust_no_list == task_id_map[task_id]
    IN /\ last' = [NoLast EXCEPT
                      !.op = "cancel_order", !.arg_task = task_id,
                      !.cancels = entrust_no_list,
                      !.gw_errs = errs,
                      !.ret_ok = ~AnyTruthy(errs),
                      !.ret_err = IF AnyTruthy(errs) THEN Join(Comma, errs)
                                  ELSE EmptyStr]
       /\ task_id_map' = [t \in DOMAIN task_id_map \ {task_id} |-> task_id_map[t]]

\* cancel_order(task_id) of a registered task; errs[i] is the gateway's answer
\* to the i-th cancel
cancel_order_known(task_id, errs) ==
    LET entrust_no_list == task_id_map[task_id]
    IN /\ last' = [NoLast EXCEPT
                      !.op = "cancel_order", !.arg_task = task_id,
                      !.cancels = entrust_no_list,
                      !.gw_errs = errs,
                      !.ret_ok = ~AnyTruthy(errs),
                      !.ret_err = IF AnyTruthy(errs) THEN Join(Comma, errs)
                                  ELSE EmptyStr]
       /\ UNCHANGED task_id_map

\* variant of cancel_order_unknown: tries the gateway with the task id
cancel_order_unknown_calls_gateway(task_id) ==
    /\ last' = [NoLast EXCEPT
                   !.op = "cancel_order", !.arg_task = task_id,
                   !.cancels = <<task_id>>,
                   !.gw_errs = <<EmptyStr>>,
                   !.ret_ok = FALSE,
                   !.ret_err = NoTaskIdPrefix \o task_id]
    /\ UNCHANGED task_id_map

\* the early return of cancel_order: "No task id {}".format(task_id)
cancel_order_unknown(task_id) ==
    /\ last' = [NoLast EXCEPT
                   !.op = "cancel_order", !.arg_task = task_id,
                   !.ret_ok = FALSE,
                   !.ret_err = NoTaskIdPrefix \o task_id]
    /\ UNCHANGED task_id_map

\* the task ids a caller may hold: every one returned or minted so far, the
\* sentinel, and one that no call ever returned
TaskIdInputs ==
    DOMAIN task_id_map
      \cup {minted["task_id"][i].id : i \in 1..Len(minted["task_id"])}
      \cup {SentinelTaskId, last.ret_task, Str(IdBase)}

CancelOrder ==
    \E task_id \in TaskIdInputs :
        /\ IF task_id \notin DOMAIN task_id_map
           THEN cancel_order_unknown(task_id)
           ELSE \E errs \in [1..Len(task_id_map[task_id]) -> GatewayErrs] :
                   cancel_order_known(task_id, errs)
        /\ UNCHANGED <<trade_date, seq_gen, pm_orders, gw_orders,
                       pm_position, minted, weights, alpha>>

-----------------------------------------------------------------------------
(* Strategy.goal_portfolio *)

\* self.pm.holding_securities
holding_securities == DOMAIN pm_position

\* curr_size as goal_portfolio reads it: 0 for a symbol that is not held
curr_size_of(sec) == IF sec \in holding_securities THEN pm_position[sec] ELSE 0

Abs(x) == IF x < 0 THEN -x ELSE x

\* variant of goal_orders: the size held is not subtracted
RECURSIVE goal_orders_ignore_held(_)
goal_orders_ignore_held(goals) ==
    IF goals = <<>> THEN <<>>
    ELSE LET goal == Head(goals)
             diff_size == goal.size
             action == IF diff_size > 0 THEN "Buy" ELSE "Sell"
         IN (IF diff_size # 0
             THEN <<new_order(goal.symbol, action, 0, Abs(diff_size), trade_date)>>
             ELSE <<>>) \o goal_orders_ignore_held(Tail(goals))

\* the body of "for goal in goals": the orders list after the loop
RECURSIVE goal_orders(_)
goal_orders(goals) ==
    IF goals = <<>> THEN <<>>
    ELSE LET goal == Head(goals)
             diff_size == goal.size - curr_size_of(goal.symbol)
             action == IF diff_size > 0 THEN "Buy" ELSE "Sell"
         IN (IF diff_size # 0
             THEN <<new_order(goal.symbol, action, 0, Abs(diff_size), trade_date)>>
             ELSE <<>>) \o goal_orders(Tail(goals))

\* variant of goal_portfolio: without the assertion on the length
goal_portfolio_no_assert(goals, errs) ==
    place_batch_order(goal_orders(goals), errs,
                      [op |-> "goal_portfolio", n_goals |-> Len(goals), goals |-> goals])

\* goal_portfolio(goals); errs[i] is the gateway's answer to the i-th order
goal_portfolio(goals, errs) ==
    IF Len(goals) # Len(universe)
    THEN /\ last' = [NoLast EXCEPT !.op = "goal_portfolio",
                                   !.n_goals = Len(goals),
                                   !.goals = goals,
                                   !.raised = "AssertionError"]
         /\ UNCHANGED <<seq_gen, task_id_map, pm_orders, gw_orders, minted>>
    ELSE place_batch_order(goal_orders(goals), errs,
                      [op |-> "goal_portfolio", n_goals |-> Len(goals), goals |-> goals])

\* goal lists a caller may pass.  Of universe length: the universe in order,
\* the first symbol twice (the second one missing), and a symbol outside the
\* universe in place of the second one; of another length: a covering list
\* with its last goal dropped or with its first goal once more, and the empty
\* list
GoalChoices == [symbol : UniverseSet \cup {"X"}, size : {0, Lot}]

FullGoalLists ==
    {g \in [1..Len(universe) -> GoalChoices] :
        /\ g[1].symbol = universe[1]
        /\ \A i \in 2..Len(universe) :
              g[i].symbol \in {universe[i], universe[1], "X"}}

CoveringGoalLists ==
    {g \in FullGoalLists : \A i \in 1..Len(universe) : g[i].symbol = universe[i]}

GoalInputs ==
    FullGoalLists
      \cup {SubSeq(g, 1, Len(g) - 1) : g \in CoveringGoalLists}
      \cup {Append(g, g[1]) : g \in CoveringGoalLists}
      \cup {<<>>}

\* the gateway's answers to the n orders of one rebalance: all accepted or all
\* rejected (place_batch_order is run on every mixed pattern)
GoalErrs(n) == {[i \in 1..n |-> e] : e \in GatewayErrs}

GoalPortfolio ==
    \E goals \in GoalInputs :
      \E errs \in GoalErrs(Len(goal_orders(goals))) :
        /\ goal_portfolio(goals, errs)
        /\ UNCHANGED <<trade_date, pm_position, weights, alpha>>

-----------------------------------------------------------------------------
(* The callbacks, forwarded to the portfolio manager, and the trade date. *)

\* PortfolioManager.on_trade_ind: a fill moves the position of its symbol
pm_on_trade_ind(pos, ind) ==
    LET old == IF ind.symbol \in DOMAIN pos THEN pos[ind.symbol] ELSE 0
        new == IF ind.action = "Buy" THEN old + ind.fill_size
                                     ELSE old - ind.fill_size
    IN IF ind.symbol \in DOMAIN pos THEN [pos EXCEPT ![ind.symbol] = new]
       ELSE pos @@ (ind.symbol :> new)

on_trade_ind(ind) ==
    /\ pm_position' = pm_on_trade_ind(pm_position, ind)
    /\ last' = [NoLast EXCEPT !.op = "on_trade_ind"]
    /\ UNCHANGED <<seq_gen, task_id_map, pm_orders, gw_orders, minted>>

\* a trade indication is a fill of an order the gateway accepted
Fills ==
    {[symbol |-> gw_orders[i].order.symbol, action |-> gw_orders[i].order.action,
      fill_size |-> gw_orders[i].order.size] :
        i \in {j \in 1..Len(gw_orders) : ~Truthy(gw_orders[j].err_msg)}}

OnTradeInd ==
    \E ind \in Fills :
        /\ pm_on_trade_ind(pm_position, ind)[ind.symbol] \in 0..(MaxHeld * Lot)
        /\ on_trade_ind(ind)
        /\ UNCHANGED <<trade_date, weights, alpha>>

\* PortfolioManager.on_order_status changes no state this class reads
on_order_status(ind) ==
    /\ last' = [NoLast EXCEPT !.op = "on_order_status"]
    /\ UNCHANGED <<seq_gen, task_id_map, pm_orders, gw_orders, minted, pm_position>>

OnOrderStatus ==
    /\ on_order_status([order_status |-> "Filled"])
    /\ UNCHANGED <<trade_date, weights, alpha>>

\* variant of on_new_day: the counters start again on the new day
on_new_day_resets_counters ==
    /\ trade_date < MaxDate
    /\ trade_date' = trade_date + 1
    /\ seq_gen' = [k \in Keys |-> 0]
    /\ UNCHANGED <<task_id_map, pm_orders, gw_orders, pm_position,
                   minted, last, weights, alpha>>

\* the driver moves ctx.trade_date to the next day; on_new_day itself is "pass"
on_new_day ==
    /\ trade_date < MaxDate
    /\ trade_date' = trade_date + 1
    /\ UNCHANGED <<seq_gen, task_id_map, pm_orders, gw_orders, pm_position,
                   minted, last, weights, alpha>>

-----------------------------------------------------------------------------
(* Python floats as exact rationals <<n, d>> in lowest terms with d > 0;     *)
(* d = 0 holds the non-finite values: NaN, +infinity and -infinity.          *)

NaN == <<0, 0>>
PosInf == <<1, 0>>
NegInf == <<-1, 0>>

RECURSIVE GCD(_, _)
GCD(a, b) == IF b = 0 THEN a ELSE GCD(b, a % b)

Sign(n) == IF n > 0 THEN 1 ELSE IF n < 0 THEN -1 ELSE 0

\* the rational n / d (d # 0) in lowest terms
Rat(n, d) ==
    LET g == GCD(Abs(n), Abs(d))
    IN <<Sign(d) * (n \div g), Abs(d) \div g>>

FInt(n) == <<n, 1>>
IsNaN(x) == x = NaN                       \* np.isnan
IsFinite(x) == x[2] # 0
Zero == FInt(0)

FAbs(x) == <<Abs(x[1]), x[2]>>

FAdd(x, y) ==
    IF IsNaN(x) \/ IsNaN(y) THEN NaN
    ELSE IF ~IsFinite(x) /\ ~IsFinite(y) THEN (IF x = y THEN x ELSE NaN)
    ELSE IF ~IsFinite(x) THEN x
    ELSE IF ~IsFinite(y) THEN y
    ELSE Rat(x[1] * y[2] + y[1] * x[2], x[2] * y[2])

FNeg(x) == <<-x[1], x[2]>>

FSub(x, y) == FAdd(x, FNeg(y))

FMul(x, y) ==
    IF IsNaN(x) \/ IsNaN(y) THEN NaN
    ELSE IF ~IsFinite(x) \/ ~IsFinite(y)
         THEN (IF x[1] = 0 \/ y[1] = 0 THEN NaN ELSE <<Sign(x[1]) * Sign(y[1]), 0>>)
    ELSE Rat(x[1] * y[1], x[2] * y[2])

\* x / y for y # 0
FDiv(x, y) ==
    IF IsNaN(x) \/ IsNaN(y) THEN NaN
    ELSE IF ~IsFinite(x) /\ ~IsFinite(y) THEN NaN
    ELSE IF ~IsFinite(x) THEN <<Sign(x[1]) * Sign(y[1]), 0>>
    ELSE IF ~IsFinite(y) THEN Zero
    ELSE Rat(x[1] * y[2], x[2] * y[1])

\* x < y; every comparison with NaN is false
FLt(x, y) ==
    IF IsNaN(x) \/ IsNaN(y) THEN FALSE
    ELSE IF ~IsFinite(x) \/ ~IsFinite(y)
         THEN (IF x = y THEN FALSE
               ELSE IF ~IsFinite(x) THEN x = NegInf ELSE y = PosInf)
    ELSE x[1] * y[2] < y[1] * x[2]

FGt(x, y) == FLt(y, x)

SymbolList == universe                    \* the order a dict of symbols is walked in

\* np.sum(np.abs(w.values()))
RECURSIVE abs_sum_from(_, _)
abs_sum_from(w, i) ==
    IF i > Len(SymbolList) THEN Zero
    ELSE IF SymbolList[i] \in DOMAIN w
         THEN FAdd(FAbs(w[SymbolList[i]]), abs_sum_from(w, i + 1))
         ELSE abs_sum_from(w, i + 1)

abs_sum(w) == abs_sum_from(w, 1)

\* Python's == between a symbol (str) and a weight (float): never equal
PyStr(s) == [type |-> "str", val |-> s]
PyFloat(x) == [type |-> "float", val |-> x]
py_eq(a, b) == a.type = b.type /\ a.val = b.val

\* x in lst, for a list of symbols
py_in(x, lst) == \E i \in 1..Len(lst) : py_eq(x, PyStr(lst[i]))

None == <<>>                              \* self.weights before any construction

\* optimize_mc: what np.random.rand and util_func hold, the candidates drawn
\* and what the call returned
NoMc == [rand |-> <<>>, util_func |-> <<>>, candidates |-> <<>>,
         min_weights |-> None, msg |-> EmptyStr]

NoAlpha == [op |-> "none", raised |-> "",
            suspensions |-> [none |-> TRUE, list |-> <<>>],
            weights_dic |-> <<>>, turnover |-> Zero, prices |-> <<>>,
            goals |-> <<>>, cash_left |-> Zero, mc |-> NoMc, algo |-> ""]

-----------------------------------------------------------------------------
(* AlphaStrategy.portfolio_construction and its construction methods *)

Tiny == Rat(1, 100000000)                 \* the literal 1e-8

\* {k: 0.0 if np.isnan(v) else v for k, v in w.viewitems()}
nan_to_zero(w) == [k \in DOMAIN w |-> IF IsNaN(w[k]) THEN Zero ELSE w[k]]

\* AlphaStrategy.equal_weight
equal_weight == [k \in UniverseSet |-> FInt(1)]

\* np.min(w.values())
f_min(w) == CHOOSE m \in {w[k] : k \in DOMAIN w} :
                \A k \in DOMAIN w : ~FLt(w[k], m)

\* long_only_weight_adjust inside factor_value_weight
long_only_weight_adjust(w) ==
    LET w_min == f_min(w)
        delta == FMul(FInt(2), FAbs(w_min))
    IN IF FLt(w_min, Zero) THEN [k \in DOMAIN w |-> FAdd(w[k], delta)] ELSE w

\* AlphaStrategy.factor_value_weight, for the forecast of the revenue model
factor_value_weight(raw_weights_dic) ==
    long_only_weight_adjust(nan_to_zero(raw_weights_dic))

\* the tail of portfolio_construction: "# normalize"
normalize(w) ==
    LET w_sum == abs_sum(w)
    IN IF FGt(w_sum, Tiny) THEN [k \in DOMAIN w |-> FDiv(w[k], w_sum)] ELSE w

\* "# step.2 set weights of those not selected to zero"; no_selector stands
\* for self.stock_selector is None
select(w, no_selector, selected_list) ==
    IF no_selector THEN w
    ELSE [k \in DOMAIN w |-> IF k \in selected_list THEN w[k] ELSE Zero]

portfolio_construction(raw, no_selector, selected_list) ==
    /\ weights' = normalize(select(nan_to_zero(raw), no_selector, selected_list))
    /\ alpha' = [NoAlpha EXCEPT !.op = "portfolio_construction"]

\* what the revenue model may forecast for one symbol
ForecastValues == {NaN, PosInf, FInt(-1), FInt(1)}

PortfolioConstruction ==
    \E no_selector \in BOOLEAN, selected_list \in SUBSET UniverseSet :
      \E raw \in {equal_weight}
                   \cup {factor_value_weight(f) : f \in [UniverseSet -> ForecastValues]} :
        /\ no_selector => selected_list = {}
        /\ portfolio_construction(raw, no_selector, selected_list)
        /\ UNCHANGED <<trackerVars, pm_position>>

-----------------------------------------------------------------------------
(* AlphaStrategy.optimize_mc *)

n_exp == 5                                \* number of experiments of Monte Carlo

\* min_f = 1e30; utilities are counted in units of 1e24
MinF0 == FInt(1000000)

\* "No weights can make f > {:.2e} found in this search".format(min_f), in
\* three pieces; min_f is still 1e30 when the message is built
NoWeightsMsg == <<"No weights can make f > ", "1.00e+30", " found in this search">>

\* the sum of one row of weights_mat
RECURSIVE row_sum_from(_, _)
row_sum_from(row, j) ==
    IF j > Len(universe) THEN Zero
    ELSE FAdd(row[universe[j]], row_sum_from(row, j + 1))

\* weights_mat / weights_mat.sum(axis=1).reshape(-1, 1), for one row
row_normalized(row) ==
    [k \in UniverseSet |-> FDiv(row[k], row_sum_from(row, 1))]

\* variant of mc_step: the candidate is taken whatever its f
mc_step_no_compare(st, w, util_func) ==
    [min_weights |-> w, min_f |-> FNeg(util_func[w])]

\* the body of "for i in range(n_exp)"
mc_step(st, w, util_func) ==
    LET f == FNeg(util_func[w])
    IN IF FLt(f, st.min_f) THEN [min_weights |-> w, min_f |-> f] ELSE st

RECURSIVE mc_loop(_, _, _, _)
mc_loop(st, i, weights_mat, util_func) ==
    IF i > n_exp THEN st
    ELSE mc_loop(mc_step(st, weights_mat[i], util_func), i + 1, weights_mat, util_func)

\* optimize_mc(util_func), np.random.rand returning the rows of rand
optimize_mc(rand, util_func) ==
    LET weights_mat == [i \in 1..n_exp |-> row_normalized(rand[i])]
        st == mc_loop([min_weights |-> None, min_f |-> MinF0], 1, weights_mat, util_func)
        msg == IF st.min_weights = None THEN NoWeightsMsg ELSE EmptyStr
    IN alpha' = [NoAlpha EXCEPT
                    !.op = "optimize_mc",
                    !.mc = [rand |-> rand, util_func |-> util_func,
                            candidates |-> weights_mat,
                            min_weights |-> st.min_weights, msg |-> msg]]

\* rows np.random.rand may return, and the candidates they normalise to
RandRows ==
    {[k \in UniverseSet |-> IF k = universe[1] THEN a ELSE b] :
        a \in {Rat(1, 4), Rat(3, 4)}, b \in {Rat(3, 4)}}
      \cup {[k \in UniverseSet |-> IF k = universe[1] THEN Rat(3, 4) ELSE Rat(1, 4)]}
Candidates == {row_normalized(r) : r \in RandRows}

\* what util_func may return: nan, exactly the bound -1e30, and two numbers
UtilValues == {NaN, FNeg(MinF0), FInt(-1), FInt(2)}

OptimizeMc ==
    /\ optimize_mc(alpha.mc.rand, alpha.mc.util_func)
    /\ UNCHANGED <<trackerVars, pm_position, weights>>

-----------------------------------------------------------------------------
(* AlphaStrategy.re_weight_suspension *)

\* {sec: w if w not in suspensions else 0.0 for sec, w in self.weights.viewitems()}
suspended_to_zero(w, suspensions) ==
    [sec \in DOMAIN w |->
        IF ~py_in(PyFloat(w[sec]), suspensions) THEN w[sec] ELSE Zero]

\* the renormalisation of re_weight_suspension
renormalize(w) ==
    LET weights_sum == abs_sum(w)
    IN IF FGt(weights_sum, Zero)
       THEN [sec \in DOMAIN w |-> FDiv(w[sec], weights_sum)] ELSE w

\* variant of re_weight_suspension: without the test for "All suspended"
re_weight_suspension_all_allowed(sus) ==
    LET done(raised) == [NoAlpha EXCEPT !.op = "re_weight_suspension",
                                        !.raised = raised,
                                        !.suspensions = sus,
                                        !.weights_dic = weights]
    IN IF sus.none \/ sus.list = <<>>
       THEN /\ alpha' = done("")
            /\ UNCHANGED weights
       ELSE IF weights = None
       THEN /\ alpha' = done("AttributeError")
            /\ UNCHANGED weights
       ELSE /\ weights' = renormalize(suspended_to_zero(weights, sus.list))
            /\ alpha' = done("")

\* re_weight_suspension(suspensions): sus.none stands for suspensions=None
re_weight_suspension(sus) ==
    LET done(raised) == [NoAlpha EXCEPT !.op = "re_weight_suspension",
                                        !.raised = raised,
                                        !.suspensions = sus,
                                        !.weights_dic = weights]
    IN IF sus.none \/ sus.list = <<>>
       THEN /\ alpha' = done("")
            /\ UNCHANGED weights
       ELSE IF Len(sus.list) = Len(universe)
       THEN /\ alpha' = done("ValueError")
            /\ UNCHANGED weights
       ELSE IF weights = None
       THEN /\ alpha' = done("AttributeError")
            /\ UNCHANGED weights
       ELSE /\ weights' = renormalize(suspended_to_zero(weights, sus.list))
            /\ alpha' = done("")

\* the suspensions a caller may pass: None, or a list of symbols of the universe
SuspensionInputs ==
    {[none |-> TRUE, list |-> <<>>]}
      \cup {[none |-> FALSE, list |-> l] : l \in SeqsUpTo(UniverseSet, Len(universe))}

ReWeightSuspension ==
    \E sus \in SuspensionInputs :
        /\ re_weight_suspension(sus)
        /\ UNCHANGED <<trackerVars, pm_position>>

-----------------------------------------------------------------------------
(* AlphaStrategy.generate_weights_order *)

\* floor of a finite rational
FFloor(x) == IF x[1] >= 0 THEN x[1] \div x[2] ELSE -((-x[1] + x[2] - 1) \div x[2])

\* variant of py_round: a tie goes to the even neighbour
py_round_half_even(x) ==
    LET lo == FFloor(x)
        frac == FSub(x, FInt(lo))
    IN IF FLt(frac, Rat(1, 2)) THEN lo
       ELSE IF FGt(frac, Rat(1, 2)) THEN lo + 1
       ELSE IF lo % 2 = 0 THEN lo ELSE lo + 1

\* int(round(x, 0)) of Python 2: to the nearest integer, a tie away from zero
py_round(x) ==
    LET a == FAbs(x)
        r == (2 * a[1] + a[2]) \div (2 * a[2])
    IN Sign(x[1]) * r

\* variant of frozen_size: a suspended symbol is given no position
frozen_size_none(sec) == 0

\* pm.get_position(sec, date): curr_size, or 0 when the position is None
frozen_size(sec) == IF sec \in DOMAIN pm_position THEN pm_position[sec] ELSE 0

\* variant of goal_size: the lots turned into shares
goal_size_in_shares(w, turnover, price) ==
    py_round(FDiv(FDiv(FMul(w, turnover), price), FInt(Lot))) * Lot

\* goal_pos.size of a symbol that is traded: "shares", in units of 100
goal_size(w, turnover, price) ==
    LET shares_raw == FDiv(FMul(w, turnover), price)
    IN py_round(FDiv(shares_raw, FInt(Lot)))

\* the loop "for sec, w in weights_dic.viewitems()" from the i-th symbol on:
\* the goals and the cash used
RECURSIVE goals_from(_, _, _, _, _)
goals_from(i, weights_dic, turnover, prices, suspensions) ==
    IF i > Len(SymbolList) THEN [goals |-> <<>>, cash_used |-> Zero]
    ELSE
      LET sec == SymbolList[i]
          rest == goals_from(i + 1, weights_dic, turnover, prices, suspensions)
          w == weights_dic[sec]
          shares == goal_size(w, turnover, prices[sec])
      IN IF sec \notin DOMAIN weights_dic THEN rest
         ELSE IF py_in(PyStr(sec), suspensions)
         THEN [goals |-> <<[symbol |-> sec, size |-> frozen_size(sec)]>> \o rest.goals,
               cash_used |-> rest.cash_used]
         ELSE IF FLt(FAbs(w), Tiny)
         THEN [goals |-> <<[symbol |-> sec, size |-> 0]>> \o rest.goals,
               cash_used |-> rest.cash_used]
         ELSE [goals |-> <<[symbol |-> sec, size |-> shares]>> \o rest.goals,
               cash_used |-> FAdd(FMul(FMul(FInt(shares), prices[sec]), FInt(Lot)),
                                  rest.cash_used)]

\* generate_weights_order(weights_dic, turnover, prices, algo, suspensions)
generate_weights_order(weights_dic, turnover, prices, algo, sus) ==
    LET done(raised, goals, cash_left) ==
            [NoAlpha EXCEPT !.op = "generate_weights_order",
                            !.raised = raised,
                            !.suspensions = sus,
                            !.weights_dic = weights_dic,
                            !.turnover = turnover,
                            !.prices = prices,
                            !.algo = algo,
                            !.goals = goals,
                            !.cash_left = cash_left]
        res == goals_from(1, weights_dic, turnover, prices, sus.list)
        failed(raised) == [NoAlpha EXCEPT !.op = "generate_weights_order",
                                          !.raised = raised,
                                          !.suspensions = sus,
                                          !.weights_dic = weights_dic,
                                          !.algo = algo]
    IN IF algo \notin {"close", "vwap"}
       THEN alpha' = failed("NotImplementedError")
       ELSE IF sus.none /\ DOMAIN weights_dic # {}
       THEN alpha' = failed("TypeError")                 \* sec in None
       ELSE IF \E sec \in DOMAIN weights_dic :
                  ~py_in(PyStr(sec), sus.list) /\ ~IsFinite(weights_dic[sec])
       THEN alpha' = failed("ValueError")                \* int(round(nan))
       ELSE alpha' = done("", res.goals, FSub(turnover, res.cash_used))

\* weights, budgets and prices a caller may pass
WeightInputs ==
    (IF weights = None THEN {} ELSE {weights})
      \cup {[k \in UniverseSet |-> IF k = universe[1] THEN Rat(-1, 2) ELSE Rat(1, 2)]}
TurnoverInputs == {FInt(100000), FInt(5000), FInt(7000)}
PriceInputs == {[k \in UniverseSet |-> IF k = universe[1] THEN FInt(10) ELSE FInt(20)]}
AlgoInputs == {"close", "vwap", "open"}

GenerateWeightsOrder ==
    \E weights_dic \in WeightInputs, turnover \in TurnoverInputs,
       prices \in PriceInputs, algo \in AlgoInputs, sus \in SuspensionInputs :
        /\ generate_weights_order(weights_dic, turnover, prices, algo, sus)
        /\ UNCHANGED <<trackerVars, pm_position, weights>>

\* a fill changes the positions the frozen goals are read from; the fills are
\* of the first symbol of the universe, the others stay without a position
AlphaOnTradeInd ==
    \E ind \in [symbol : {universe[1]}, action : Actions, fill_size : {Lot}] :
        /\ pm_on_trade_ind(pm_position, ind)[ind.symbol] \in 0..(MaxHeld * Lot)
        /\ pm_position' = pm_on_trade_ind(pm_position, ind)
        /\ alpha' = [NoAlpha EXCEPT !.op = "on_trade_ind"]
        /\ UNCHANGED <<trackerVars, weights>>

-----------------------------------------------------------------------------
Init ==
    /\ trade_date = 1
    /\ seq_gen = [k \in Keys |-> 0]
    /\ task_id_map = <<>>
    /\ pm_orders = <<>>
    /\ gw_orders = <<>>
    /\ pm_position = <<>>
    /\ minted = [k \in Keys |-> <<>>]
    /\ last = NoLast
    /\ weights = None
    /\ alpha = NoAlpha

\* the order tracker on one trade date: orders, cancels, callbacks
Next ==
    \/ PlaceOrder
    \/ PlaceBatchOrder
    \/ CancelOrder
    \/ OnTradeInd
    \/ OnOrderStatus

Spec == Init /\ [][Next]_vars

\* identifier minting over several trade dates
NextDays ==
    \/ PlaceOrder
    \/ PlaceBatchOrder
    \/ on_new_day

SpecDays == Init /\ [][NextDays]_vars

\* goal_portfolio on the positions the fills leave
NextGoal ==
    \/ GoalPortfolio
    \/ OnTradeInd

SpecGoal == Init /\ [][NextGoal]_vars

\* the weight pipeline of AlphaStrategy
NextAlpha ==
    \/ PortfolioConstruction
    \/ ReWeightSuspension
    \/ GenerateWeightsOrder
    \/ AlphaOnTradeInd

SpecAlpha == Init /\ [][NextAlpha]_vars

\* identifier minting on an instance that has minted before: both counters
\* are at 0, one short of 10000 or at 10000 (the orders of those earlier calls
\* are left out of the logs)
CounterStarts == {0, IdBase - 1, IdBase}

InitIds ==
    /\ trade_date = 1
    /\ \E c \in CounterStarts : seq_gen = [k \in Keys |-> c]
    /\ task_id_map = <<>>
    /\ pm_orders = <<>>
    /\ gw_orders = <<>>
    /\ pm_position = <<>>
    /\ minted = [k \in Keys |-> <<>>]
    /\ last = NoLast
    /\ weights = None
    /\ alpha = NoAlpha

NextIds ==
    \/ PlaceOrder
    \/ PlaceBatchOrder
    \/ on_new_day

SpecIds == InitIds /\ [][NextIds]_vars

\* optimize_mc on every draw of the random matrix and every utility function
InitMC ==
    /\ trade_date = 1
    /\ seq_gen = [k \in Keys |-> 0]
    /\ task_id_map = <<>>
    /\ pm_orders = <<>>
    /\ gw_orders = <<>>
    /\ pm_position = <<>>
    /\ minted = [k \in Keys |-> <<>>]
    /\ last = NoLast
    /\ weights = None
    /\ \E rand \in [1..n_exp -> RandRows], util_func \in [Candidates -> UtilValues] :
          alpha = [NoAlpha EXCEPT !.mc = [NoMc EXCEPT !.rand = rand,
                                                     !.util_func = util_func]]

NextMC == OptimizeMc

SpecMC == InitMC /\ [][NextMC]_vars

-----------------------------------------------------------------------------
(* Properties. *)

Distinct(seq) == \A i, j \in 1..Len(seq) : i # j => seq[i] # seq[j]

\* the last n elements of a sequence
LastN(seq, n) == SubSeq(seq, Len(seq) - n + 1, Len(seq))

IsPrefix(a, b) == Len(a) <= Len(b) /\ SubSeq(b, 1, Len(a)) = a

\* a re_weight_suspension that got past both early exits: a non-empty list of
\* fewer suspended symbols than the universe has
Reweighted ==
    /\ alpha.op = "re_weight_suspension"
    /\ alpha.raised = ""
    /\ ~alpha.suspensions.none
    /\ alpha.suspensions.list # <<>>
    /\ Len(alpha.suspensions.list) < Len(universe)

\* the weights the call found were numbers: no NaN, no infinity
FiniteBefore == \A k \in DOMAIN alpha.weights_dic : IsFinite(alpha.weights_dic[k])

Generated == alpha.op = "generate_weights_order" /\ alpha.raised = ""

\* the goals of symbols that are traded: not suspended, |weight| >= 1e-8
TradedGoals ==
    {i \in 1..Len(alpha.goals) :
        /\ ~InSeq(alpha.goals[i].symbol, alpha.suspensions.list)
        /\ ~FLt(FAbs(alpha.weights_dic[alpha.goals[i].symbol]), Tiny)}

\* the lots of a traded symbol: weight * turnover / (price * 100), rounded
LotsOf(sec) ==
    py_round(FDiv(FMul(alpha.weights_dic[sec], alpha.turnover),
                  FMul(alpha.prices[sec], FInt(Lot))))

\* the example of the specification: weights {A: 0.5, B: 0.5}, turnover 100000,
\* prices {A: 10, B: 20}, no suspensions
IsExample ==
    /\ Generated
    /\ alpha.weights_dic = [k \in UniverseSet |-> Rat(1, 2)]
    /\ alpha.turnover = FInt(100000)
    /\ alpha.prices["A"] = FInt(10) /\ alpha.prices["B"] = FInt(20)
    /\ alpha.suspensions.list = <<>>

BatchOrders == LastN(pm_orders, last.n_orders)

EarlierTaskIds ==
    {minted["task_id"][i].id : i \in 1..(Len(minted["task_id"]) - 1)}

\* C3: after place_batch_order(orders) with N orders, all N orders carry the
\* one task id minted by the call, which differs from every task id minted
\* earlier; the entrust ids of all orders are pairwise distinct; and the
\* returned task id maps to exactly N pairwise-distinct entrust ids.
C3_BatchSharesFreshTask ==
    last.op = "place_batch_order" =>
        /\ last.ret_task = last.minted_task
        /\ last.ret_task = minted["task_id"][Len(minted["task_id"])].id
        /\ last.ret_task \notin EarlierTaskIds
        /\ Len(pm_orders) >= last.n_orders
        /\ \A i \in 1..last.n_orders : BatchOrders[i].task_id = last.ret_task
        /\ Distinct([i \in 1..Len(pm_orders) |-> pm_orders[i].entrust_no])
        /\ Len(map_get(task_id_map, last.ret_task)) = last.n_orders
        /\ Distinct(map_get(task_id_map, last.ret_task))
        /\ \A i \in 1..last.n_orders :
              map_get(task_id_map, last.ret_task)[i] = BatchOrders[i].entrust_no

C3_Witness ==
    /\ last.op = "place_batch_order"
    /\ last.n_orders = 2
    /\ EarlierTaskIds # {}

\* C4: after place_order the order is registered whatever the gateway said: it
\* is the last order of the position tracker and its entrust id is in
\* task_id_map under the minted task id, which is not '0'; on a gateway error
\* the call returns ('0', error), on the empty string (task id, "").
C4_PlaceOrderErrorKeepsRegistration ==
    (last.op = "place_order" /\ last.raised = "") =>
        /\ pm_orders # <<>> /\ gw_orders # <<>>
        /\ LET order == pm_orders[Len(pm_orders)]
               sent == gw_orders[Len(gw_orders)]
           IN /\ sent.order = order
              /\ order.task_id = last.minted_task
              /\ order.task_id # SentinelTaskId
              /\ InSeq(order.entrust_no, map_get(task_id_map, order.task_id))
              /\ Truthy(sent.err_msg) =>
                    last.ret_task = SentinelTaskId /\ last.ret_err = sent.err_msg
              /\ ~Truthy(sent.err_msg) =>
                    last.ret_task = order.task_id /\ last.ret_err = EmptyStr

C4_Witness ==
    /\ last.op = "place_order"
    /\ last.ret_task = SentinelTaskId
    /\ Truthy(last.ret_err)
    /\ last.minted_task \in DOMAIN task_id_map

\* the order as the caller passed it: without the two ids
Bare(order) == [order EXCEPT !.task_id = EmptyStr, !.entrust_no = EmptyStr]

\* C5: place_batch_order neither rolls back nor stops early: whatever the
\* gateway answered, each of the N orders is registered with the position
\* tracker, forwarded to the gateway exactly once in list order, and recorded
\* in task_id_map.
C5_BatchNeverStopsEarly ==
    last.op = "place_batch_order" =>
        /\ Len(last.gw_errs) = last.n_orders
        /\ Len(pm_orders) >= last.n_orders
        /\ Len(gw_orders) = Len(pm_orders)
        /\ \A i \in 1..last.n_orders :
              LET k == Len(pm_orders) - last.n_orders + i
              IN /\ Bare(pm_orders[k]) = last.orders[i]
                 /\ gw_orders[k].order = pm_orders[k]
                 /\ gw_orders[k].err_msg = last.gw_errs[i]
                 /\ Cardinality({j \in 1..Len(gw_orders) :
                        gw_orders[j].order.entrust_no = pm_orders[k].entrust_no}) = 1
                 /\ InSeq(pm_orders[k].entrust_no,
                          map_get(task_id_map, pm_orders[k].task_id))

C5_Witness ==
    /\ last.op = "place_batch_order"
    /\ last.n_orders = 2
    /\ Truthy(last.gw_errs[1])
    /\ ~Truthy(last.gw_errs[2])

\* C6: cancel_order of a task id that is not in task_id_map (the sentinel '0'
\* included) returns (False, non-empty error), makes no gateway cancel call and
\* leaves task_id_map and the id counters unchanged.
C6_CancelUnknownTask ==
    [][(last'.op = "cancel_order" /\ last'.arg_task \notin DOMAIN task_id_map) =>
          /\ last'.ret_ok = FALSE
          /\ Truthy(last'.ret_err)
          /\ last'.cancels = <<>>
          /\ UNCHANGED <<task_id_map, seq_gen>>]_vars

C6_Witness ==
    /\ last.op = "cancel_order"
    /\ last.arg_task = SentinelTaskId
    /\ ~last.ret_ok
    /\ \E i \in 1..Len(gw_orders) : Truthy(gw_orders[i].err_msg)

\* C7: cancel_order of a registered task makes exactly one gateway cancel for
\* every entrust id of the task, in order, also after a failed cancel; it
\* returns (True, "") iff every cancel returned the empty string, and otherwise
\* (False, the errors joined by ',').
C7_CancelEveryEntrust ==
    (last.op = "cancel_order" /\ last.arg_task \in DOMAIN task_id_map) =>
        /\ last.cancels = task_id_map[last.arg_task]
        /\ Len(last.gw_errs) = Len(last.cancels)
        /\ last.ret_ok <=> (\A i \in 1..Len(last.gw_errs) : last.gw_errs[i] = EmptyStr)
        /\ last.ret_ok => last.ret_err = EmptyStr
        /\ ~last.ret_ok => last.ret_err = Join(Comma, last.gw_errs)

C7_Witness ==
    /\ last.op = "cancel_order"
    /\ Len(last.cancels) = 2
    /\ Truthy(last.gw_errs[1])
    /\ ~Truthy(last.gw_errs[2])
    /\ ~last.ret_ok

\* C8: every (task id, entrust id) association recorded in task_id_map stays:
\* each step keeps every task id and keeps its list as a prefix of the new one.
C8_TaskMapMonotonic ==
    [][\A t \in DOMAIN task_id_map :
          t \in DOMAIN task_id_map' /\ IsPrefix(task_id_map[t], task_id_map'[t])]_vars

C8_Witness ==
    /\ last.op = "cancel_order"
    /\ last.ret_ok
    /\ last.arg_task \in DOMAIN task_id_map
    /\ Len(task_id_map[last.arg_task]) = 2

\* C9: the k-th call of _get_next_num for a key yields str(trade_date * 10000 + k)
\* for the trade date of the call, whatever was minted for the other key.
C9_IdsCountFromOne ==
    \A key \in Keys :
        /\ Len(minted[key]) = seq_gen[key]
        /\ \A k \in 1..Len(minted[key]) :
              minted[key][k].id = Str(minted[key][k].date * IdBase + k)

C9_Witness ==
    /\ Len(minted["entrust_no"]) = 2
    /\ Len(minted["task_id"]) = 1
    /\ minted["entrust_no"][1].date = minted["entrust_no"][2].date

\* C10: goal_portfolio(goals) with len(goals) # len(universe) fails before any
\* effect: no id is minted, no order is registered or sent and task_id_map is
\* unchanged.
C10_GoalLengthMismatchFailsFirst ==
    [][(last'.op = "goal_portfolio" /\ last'.n_goals # Len(universe)) =>
          /\ last'.raised = "AssertionError"
          /\ UNCHANGED <<seq_gen, minted, task_id_map, pm_orders, gw_orders>>]_vars

C10_Witness ==
    /\ last.op = "goal_portfolio"
    /\ last.raised = "AssertionError"
    /\ last.n_goals = Len(universe) + 1
    /\ pm_orders # <<>>

\* x <= y; every comparison with NaN is false
FLe(x, y) == FLt(x, y) \/ (x = y /\ ~IsNaN(x))

\* |x - y| <= eps
Within(x, y, eps) == FLe(FAbs(FSub(x, y)), eps)

\* C11: after portfolio_construction, whatever raw weights the construction
\* method returned and whatever the selection, the sum of the absolute values
\* of self.weights is within 1e-8 of 0 or within 1e-8 of 1.
C11_WeightsSumZeroOrOne ==
    alpha.op = "portfolio_construction" =>
        \/ Within(abs_sum(weights), Zero, Tiny)
        \/ Within(abs_sum(weights), FInt(1), Tiny)

\* the utilities of the candidates of the last optimize_mc
UtilOf(i) == alpha.mc.util_func[alpha.mc.candidates[i]]

\* candidate i beats the sentinel: its utility exceeds -1e30
Beats(i) == FGt(UtilOf(i), FNeg(MinF0))

\* C12: optimize_mc returns, when some candidate's utility exceeds -1e30, one
\* of the 5 candidates whose utility no other candidate exceeds (and which every
\* candidate that beats the bound is at most), with an empty message; when no
\* candidate beats the bound it returns (None, non-empty message).
C12_OptimizeMcSelectsMaximum ==
    alpha.op = "optimize_mc" =>
        IF \E i \in 1..n_exp : Beats(i)
        THEN /\ \E i \in 1..n_exp : alpha.mc.min_weights = alpha.mc.candidates[i]
             /\ \A i \in 1..n_exp :
                   Beats(i) => FLe(UtilOf(i), alpha.mc.util_func[alpha.mc.min_weights])
             /\ alpha.mc.msg = EmptyStr
        ELSE /\ alpha.mc.min_weights = None
             /\ Truthy(alpha.mc.msg)

\* the maximum is beaten by an earlier candidate's successor: the best one is
\* neither the first nor the last drawn, and a nan and the bound itself occur
C12_Witness ==
    /\ alpha.op = "optimize_mc"
    /\ Beats(2) /\ ~Beats(1)
    /\ FLt(UtilOf(3), UtilOf(2))
    /\ \E i \in 1..n_exp : IsNaN(UtilOf(i))
    /\ alpha.mc.min_weights = alpha.mc.candidates[2]

\* no candidate beats the bound
C12_WitnessNone ==
    /\ alpha.op = "optimize_mc"
    /\ alpha.mc.min_weights = None
    /\ \E i \in 1..n_exp : UtilOf(i) = FNeg(MinF0)

\* the symbols of a list
SetOf(list) == {list[i] : i \in 1..Len(list)}

\* a re_weight_suspension whose suspensions are the whole universe, each
\* symbol once
AllSuspended ==
    /\ alpha.op = "re_weight_suspension"
    /\ ~alpha.suspensions.none
    /\ Distinct(alpha.suspensions.list)
    /\ SetOf(alpha.suspensions.list) = UniverseSet

\* C13: re_weight_suspension with the whole universe suspended raises and
\* leaves self.weights as the call found it.
C13_AllSuspendedRaises ==
    AllSuspended =>
        /\ alpha.raised = "ValueError"
        /\ weights = alpha.weights_dic

C13_Witness ==
    /\ AllSuspended
    /\ alpha.raised = "ValueError"
    /\ weights # None
    /\ \E k \in DOMAIN weights : weights[k] # Zero

\* C14: at the moment of each gateway place_order call, made by place_order or
\* by place_batch_order, the entrust id of the order is already in task_id_map
\* under the task id of the order.
C14_CreatedBeforeSubmitted ==
    \A i \in 1..Len(gw_orders) : gw_orders[i].mapped

\* the goal list of the last goal_portfolio names every symbol of the universe
\* once and no other symbol
CoversUniverse ==
    /\ Len(last.goals) = Len(universe)
    /\ {last.goals[i].symbol : i \in 1..Len(last.goals)} = UniverseSet

\* C15: goal_portfolio rejects, before any order is submitted, every goal list
\* that holds a symbol outside the universe, holds a symbol twice or misses a
\* symbol of the universe.
C15_GoalsCoverUniverse ==
    (last.op = "goal_portfolio" /\ ~CoversUniverse) =>
        /\ last.raised # ""
        /\ last.n_orders = 0

\* the size held of a symbol, 0 when the portfolio manager holds none
HeldSize(sec) == IF sec \in DOMAIN pm_position THEN pm_position[sec] ELSE 0

\* the goals of the last goal_portfolio with their diffs, and those to trade
GoalDiffs ==
    [i \in 1..Len(last.goals) |->
        [symbol |-> last.goals[i].symbol,
         diff |-> last.goals[i].size - HeldSize(last.goals[i].symbol)]]

NonZeroDiff(g) == g.diff # 0

ToTrade == SelectSeq(GoalDiffs, NonZeroDiff)

\* C16: goal_portfolio on a goal list as long as the universe makes one order
\* for each goal whose diff = goal.size - held size is not 0, in list order: a
\* buy when diff > 0, a sell when diff < 0, of size |diff|; all of them go
\* through one place_batch_order call and carry its one task id.
C16_DiffsBecomeOneBatch ==
    (last.op = "goal_portfolio" /\ Len(last.goals) = Len(universe)) =>
        /\ last.raised = ""
        /\ last.n_orders = Len(ToTrade)
        /\ Len(pm_orders) >= last.n_orders
        /\ last.minted_task = minted["task_id"][Len(minted["task_id"])].id
        /\ Len(map_get(task_id_map, last.minted_task)) = last.n_orders
        /\ \A i \in 1..Len(ToTrade) :
              LET order == BatchOrders[i]
              IN /\ order.symbol = ToTrade[i].symbol
                 /\ order.size = Abs(ToTrade[i].diff)
                 /\ ToTrade[i].diff > 0 => order.action = "Buy"
                 /\ ToTrade[i].diff < 0 => order.action = "Sell"
                 /\ order.task_id = last.minted_task
                 /\ gw_orders[Len(gw_orders) - last.n_orders + i].order = order

\* a rebalance that sells the symbol held and leaves the other goal, whose
\* diff is 0, without an order
C16_Witness ==
    /\ last.op = "goal_portfolio"
    /\ CoversUniverse
    /\ \E i \in 1..Len(GoalDiffs) : GoalDiffs[i].diff = 0
    /\ last.n_orders = 1
    /\ BatchOrders[1].action = "Sell"
    /\ HeldSize(BatchOrders[1].symbol) = Lot

\* the goals of suspended symbols, and of symbols with |weight| < 1e-8 that
\* are not suspended
SuspendedGoals ==
    {i \in 1..Len(alpha.goals) :
        InSeq(alpha.goals[i].symbol, alpha.suspensions.list)}

TinyGoals ==
    {i \in 1..Len(alpha.goals) :
        /\ i \notin SuspendedGoals
        /\ FLt(FAbs(alpha.weights_dic[alpha.goals[i].symbol]), Tiny)}

\* the cash the goals from the i-th on use, counting the traded symbols only
RECURSIVE CashOfTraded(_)
CashOfTraded(i) ==
    IF i > Len(alpha.goals) THEN Zero
    ELSE FAdd(IF i \in TradedGoals
              THEN FMul(FInt(alpha.goals[i].size * Lot),
                        alpha.prices[alpha.goals[i].symbol])
              ELSE Zero,
              CashOfTraded(i + 1))

\* C17: in generate_weights_order the goal size of a suspended symbol is the
\* size held (0 without a position) whatever its weight, the goal size of a
\* symbol that is not suspended and has |weight| < 1e-8 is 0, and neither of
\* them adds to cash_used: cash_left = turnover - the cash of the traded ones.
C17_FrozenAndTinyGoals ==
    Generated =>
        /\ \A i \in SuspendedGoals :
              alpha.goals[i].size = HeldSize(alpha.goals[i].symbol)
        /\ \A i \in TinyGoals : alpha.goals[i].size = 0
        /\ alpha.cash_left = FSub(alpha.turnover, CashOfTraded(1))

\* a suspended symbol with a position and a weight, next to a symbol that is
\* not suspended and has weight 0
C17_Witness ==
    /\ Generated
    /\ \E i \in SuspendedGoals :
          /\ alpha.goals[i].size = Lot
          /\ alpha.weights_dic[alpha.goals[i].symbol] # Zero
    /\ TinyGoals # {}

\* a call of generate_weights_order with an allowed algo, on weights that are
\* numbers
AllowedCall ==
    /\ alpha.op = "generate_weights_order"
    /\ alpha.algo \in {"close", "vwap"}
    /\ FiniteBefore

\* C18: every call of generate_weights_order with algo 'close' or 'vwap',
\* whether suspensions is a non-empty list, an empty list or left at its
\* default None, completes and returns one GoalPosition for each symbol of the
\* weight mapping.
C18_GenerateCompletes ==
    AllowedCall =>
        /\ alpha.raised = ""
        /\ Len(alpha.goals) = Cardinality(DOMAIN alpha.weights_dic)
        /\ {alpha.goals[i].symbol : i \in 1..Len(alpha.goals)} = DOMAIN alpha.weights_dic

\* C18 for suspensions given as a list, empty or not
C18_GenerateCompletesOnList ==
    (AllowedCall /\ ~alpha.suspensions.none) =>
        /\ alpha.raised = ""
        /\ Len(alpha.goals) = Cardinality(DOMAIN alpha.weights_dic)
        /\ {alpha.goals[i].symbol : i \in 1..Len(alpha.goals)} = DOMAIN alpha.weights_dic

\* raw_shares of a symbol: weight * turnover / price, and the lots before
\* rounding: raw_shares / 100
RawShares(sec) ==
    FDiv(FMul(alpha.weights_dic[sec], alpha.turnover), alpha.prices[sec])

RawLots(sec) == FDiv(RawShares(sec), FInt(Lot))

\* the traded goals whose lots are halfway between two integers
TieGoals == {i \in TradedGoals : RawLots(alpha.goals[i].symbol)[2] = 2}

\* C19, as stated: a tie goes to the even neighbour; raw_shares = 250 gives 2
\* lots and raw_shares = 350 gives 4 lots.
C19_TiesToEven ==
    Generated =>
        \A i \in TieGoals :
            LET sec == alpha.goals[i].symbol
                size == alpha.goals[i].size
            IN /\ FAbs(FSub(FInt(size), RawLots(sec))) = Rat(1, 2)
               /\ size % 2 = 0
               /\ RawShares(sec) = FInt(250) => size = 2
               /\ RawShares(sec) = FInt(350) => size = 4

\* C19, amended: a tie goes to the neighbour away from zero; raw_shares = 250
\* gives 3 lots, raw_shares = 350 gives 4 lots and raw_shares = -250 gives -3.
C19_TiesAwayFromZero ==
    Generated =>
        \A i \in TieGoals :
            LET sec == alpha.goals[i].symbol
                size == alpha.goals[i].size
            IN /\ FAbs(FSub(FInt(size), RawLots(sec))) = Rat(1, 2)
               /\ Abs(size) = FFloor(FAbs(RawLots(sec))) + 1
               /\ Sign(size) = Sign(RawLots(sec)[1])
               /\ RawShares(sec) = FInt(250) => size = 3
               /\ RawShares(sec) = FInt(350) => size = 4
               /\ RawShares(sec) = FInt(-250) => size = -3

C19_Witness ==
    /\ Generated
    /\ \E i \in TieGoals :
          /\ RawShares(alpha.goals[i].symbol) = FInt(250)
          /\ alpha.goals[i].size = 3

C19_WitnessOdd ==
    /\ Generated
    /\ \E i \in TieGoals : RawShares(alpha.goals[i].symbol) = FInt(350)

C19_WitnessNegative ==
    /\ Generated
    /\ \E i \in TieGoals : RawShares(alpha.goals[i].symbol) = FInt(-250)

\* C20: the error string place_batch_order returns is empty if and only if
\* every gateway place_order call of the batch returned the empty string, for
\* every batch size N >= 0.
C20_BatchErrorEmptyIffAllAccepted ==
    last.op = "place_batch_order" =>
        (last.ret_err = EmptyStr
            <=> \A i \in 1..Len(last.gw_errs) : last.gw_errs[i] = EmptyStr)

\* C20 for batches of at most one order
C20_HoldsUpToOneOrder ==
    (last.op = "place_batch_order" /\ last.n_orders <= 1) =>
        (last.ret_err = EmptyStr
            <=> \A i \in 1..Len(last.gw_errs) : last.gw_errs[i] = EmptyStr)

\* C21: portfolio_construction replaces every raw weight that is not finite
\* (NaN, +infinity, -infinity) by 0.0 before the selection and the
\* normalisation, so that self.weights holds finite values only.
C21_WeightsFinite ==
    alpha.op = "portfolio_construction" =>
        \A k \in DOMAIN weights : IsFinite(weights[k])

\* the ids minted for a key, in the order of the calls
IdsOf(key) == [i \in 1..Len(minted[key]) |-> minted[key][i].id]

\* C22: over place_order and place_batch_order calls on one instance, with
\* ctx.trade_date moving to equal or later dates and the counters never reset,
\* past 9999 included, no two orders get the same entrust id and no two tasks
\* the same task id.
C22_IdsUnique ==
    /\ Distinct(IdsOf("task_id"))
    /\ Distinct(IdsOf("entrust_no"))
    /\ Distinct([i \in 1..Len(pm_orders) |-> pm_orders[i].entrust_no])
    /\ \A i \in 1..Len(pm_orders) :
          /\ InSeq(pm_orders[i].entrust_no, IdsOf("entrust_no"))
          /\ InSeq(pm_orders[i].task_id, IdsOf("task_id"))

\* ids minted on two dates, the later ones with a counter past 10000
C22_Witness ==
    /\ Len(minted["entrust_no"]) = 2
    /\ minted["entrust_no"][1].date < minted["entrust_no"][2].date
    /\ seq_gen["entrust_no"] > IdBase
    /\ seq_gen["task_id"] > IdBase
    /\ Len(minted["task_id"]) = 2

====
